---- MODULE Spec2Model ----
(***************************************************************************)
(* Model of expbr::Exponential_backoff_retry (src/exp_backoff_retry.h).    *)
(*                                                                         *)
(* One call of operator() is modelled: the caller thread creates the       *)
(* promise/future pair, starts work_thread, joins it and returns the       *)
(* future; work_thread runs the do/while retry loop.  The wrapped callable *)
(* is opaque, so it is modelled by a script: the value it returns on its   *)
(* i-th invocation, the invocation (if any) on which it throws, and what   *)
(* it does to the argument it is handed.  A second call of operator() on   *)
(* the same object, made from another caller thread, is kept in the record *)
(* `second`; it is absent in the specifications of a single call.          *)
(***************************************************************************)
EXTENDS Integers, Sequences, FiniteSets, TLC

\* ---------------------------------------------------------------- bounds
\* Largest max_retries handed to the constructor.
MaxRetriesBound == 3

\* Values the callable may return; 5 plays the target of the README example.
Values == {1, 2, 5}
Targets == {5}

\* base_delay values (milliseconds) handed to the constructor.
BaseDelays == {0, 3, 100}

\* backoff_factor values, as fractions num/den: 0.5, 1.0, 2.0.
Factors == {[num |-> 1, den |-> 2], [num |-> 1, den |-> 1], [num |-> 2, den |-> 1]}

\* The script of the callable covers one invocation more than the largest
\* max_retries; later invocations repeat the last scripted value.
ScriptLen == MaxRetriesBound + 1

\* What the callable does to the argument it is handed: it only reads it, it
\* changes it through an lvalue reference (Args deduced as T&), or it moves
\* from it (Args deduced as T, so std::forward hands over an rvalue).
ArgUses == {"reads", "mutates", "consumes"}

\* Values of the one argument passed to operator().
ArgSnapshots == {"a"}

VARIABLES
    maxRetries,     \* _maxRetries
    baseDelay,      \* _baseDelay.count()
    backoffFactor,  \* _backoffFactor, as a fraction
    t,              \* the expected value captured by the lambda
    script,         \* callable: value returned on the i-th invocation
    throwsAt,       \* callable: invocation on which it throws (0: never)
    argUse,         \* callable: what it does to its argument
    argSnapshot,    \* value of the argument when operator() is called
    args,           \* the lambda's by-value capture of args (<<>>: not yet)
    argSeen,        \* argument value the latest invocation received
    second,         \* a second, concurrent call of operator() on the object
    pcC,            \* caller thread position in operator()
    pcW,            \* work_thread position in the lambda
    retryCount,     \* std::atomic<unsigned int> retryCount
    result,         \* local `result` of the lambda (<<>>: not yet assigned)
    promise,        \* shared state of promiseRes/futureRes (<<>>: no value)
    setCalls,       \* number of promiseRes.set_value calls made
    got,            \* what the caller read from the future (<<>>: nothing)
    trace           \* invocations and sleeps of work_thread, in order

vars == <<maxRetries, baseDelay, backoffFactor, t, script, throwsAt, argUse,
          argSnapshot, args, argSeen, second, pcC, pcW, retryCount, result, promise,
          setCalls, got, trace>>

policy == <<maxRetries, baseDelay, backoffFactor>>
callable == <<t, script, throwsAt, argUse, argSnapshot>>
captured == <<args, argSeen>>

\* Everything that belongs to the first call of operator().
firstCall == <<callable, captured, pcC, pcW, retryCount, result, promise,
               setCalls, got, trace>>

\* No second call is made.
NoSecondCall == [pcC |-> "absent"]

\* std::terminate ends the process, and with it the threads of the other call.
Killed(s) ==
    IF s.pcC = "absent" THEN s
    ELSE [s EXCEPT !.pcC = "terminated", !.pcW = "terminated"]

\* ------------------------------------------------------------- helpers
RECURSIVE Pow(_, _)
Pow(b, n) == IF n = 0 THEN 1 ELSE b * Pow(b, n - 1)

\* The delay computed from the counter as it is after ++retryCount.
getDelay_PostIncrement(n) ==
    (baseDelay * Pow(backoffFactor.num, n + 1)) \div Pow(backoffFactor.den, n + 1)

\* getDelay: static_cast<long long>(_baseDelay.count() * pow(_backoffFactor, n)).
\* The product is non-negative here, so truncation is the floor.
getDelay(n) ==
    (baseDelay * Pow(backoffFactor.num, n)) \div Pow(backoffFactor.den, n)

\* func(std::forward<Args>(args)...) is handed the captured copy itself, not
\* a copy of it: the values the capture can hold once the invocation is over.
\* A moved-from object is in a valid but unspecified state.
ArgAfterCall(v) ==
    CASE argUse = "reads" -> {v}
      [] argUse = "mutates" -> {"changed"}
      [] argUse = "consumes" -> {v, ""}

\* The value func(args...) returns on its i-th invocation (1-indexed).
FuncResult(i) == script[IF i <= ScriptLen THEN i ELSE ScriptLen]

CallEvent(v) == [ev |-> "call", val |-> v]
SleepEvent(d) == [ev |-> "sleep", val |-> d]

\* Number of invocations of the callable that have returned so far.
Calls == Cardinality({i \in 1..Len(trace) : trace[i].ev = "call"})
\* Number of sleep_for calls completed so far.
Sleeps == Cardinality({i \in 1..Len(trace) : trace[i].ev = "sleep"})

\* ---------------------------------------------------------------- Init
\* No call of operator() has started: the state of the call is blank.
NotCalled ==
    /\ pcC = "start"
    /\ pcW = "idle"
    /\ retryCount = 0
    /\ result = <<>>
    /\ promise = <<>>
    /\ setCalls = 0
    /\ got = <<>>
    /\ trace = <<>>
    /\ args = <<>>
    /\ argSeen = <<>>

\* State after the constructor (lines 22-27), before operator() is called,
\* with a callable that only reads its argument.
Init ==
    /\ maxRetries \in 0..MaxRetriesBound
    /\ baseDelay \in BaseDelays
    /\ backoffFactor \in Factors
    /\ t \in Targets
    /\ script \in [1..ScriptLen -> Values]
    /\ throwsAt \in 0..ScriptLen
    /\ argUse = "reads"
    /\ argSnapshot \in ArgSnapshots
    /\ NotCalled
    /\ second = NoSecondCall

\* The same, for every use a callable makes of its argument and one policy
\* per max_retries (the delays play no part in what the argument becomes).
InitArgs ==
    /\ maxRetries \in 0..MaxRetriesBound
    /\ baseDelay = 100
    /\ backoffFactor = [num |-> 2, den |-> 1]
    /\ t \in Targets
    /\ script \in [1..ScriptLen -> Values]
    /\ throwsAt \in 0..ScriptLen
    /\ argUse \in ArgUses
    /\ argSnapshot \in ArgSnapshots
    /\ NotCalled
    /\ second = NoSecondCall

\* ------------------------------------------------------ caller thread
\* do { ... } while (...): the body is entered before the condition is tested.
LoopEntry_While == "while"
LoopEntry == "call"

\* Lines 46-55: promise and future are created, work_thread is started and
\* its lambda initialises retryCount to 0.
Execute ==
    /\ pcC = "start"
    /\ pcC' = "join"
    /\ pcW' = LoopEntry
    /\ retryCount' = 0
    /\ args' = <<argSnapshot>>
    /\ UNCHANGED <<second, policy, callable, argSeen, result, promise,
                   setCalls, got, trace>>

\* Line 75: work_thread.join() returns once the lambda has returned.
Join ==
    /\ pcC = "join"
    /\ pcW = "done"
    /\ pcC' = "return"
    /\ UNCHANGED <<second, policy, callable, captured, pcW, retryCount,
                   result, promise, setCalls, got, trace>>

\* Line 77: the future is handed to the caller.
Return ==
    /\ pcC = "return"
    /\ pcC' = "returned"
    /\ UNCHANGED <<second, policy, callable, captured, pcW, retryCount,
                   result, promise, setCalls, got, trace>>

\* The caller reads the returned std::future (get blocks until a value is set).
Get ==
    /\ pcC = "returned"
    /\ promise # <<>>
    /\ got' = promise
    /\ pcC' = "got"
    /\ UNCHANGED <<second, policy, callable, captured, pcW, retryCount,
                   result, promise, setCalls, trace>>

\* -------------------------------------------------------- work_thread
\* Line 59, the callable returns: result = func(args...).
Call ==
    /\ pcW = "call"
    /\ throwsAt # Calls + 1
    /\ result' = <<FuncResult(Calls + 1)>>
    /\ trace' = Append(trace, CallEvent(FuncResult(Calls + 1)))
    /\ pcW' = "check"
    /\ argSeen' = args
    /\ args' \in {<<v>> : v \in ArgAfterCall(args[1])}
    /\ UNCHANGED <<second, policy, callable, pcC, retryCount, promise,
                   setCalls, got>>

\* Line 59, the callable throws: nothing in the lambda catches, the exception
\* leaves the thread function and std::terminate ends the process.
CallThrows ==
    /\ pcW = "call"
    /\ throwsAt = Calls + 1
    /\ pcW' = "terminated"
    /\ pcC' = "terminated"
    /\ argSeen' = args
    /\ second' = Killed(second)
    /\ UNCHANGED <<policy, callable, args, retryCount, result, promise,
                   setCalls, got, trace>>

\* Line 60: if (result != t).
ResultMismatch_Inverted == result[1] = t
ResultMismatch == result[1] # t

Check ==
    /\ pcW = "check"
    /\ pcW' = IF ResultMismatch THEN "sleep" ELSE "set_match"
    /\ UNCHANGED <<second, policy, callable, captured, pcC, retryCount,
                   result, promise, setCalls, got, trace>>

\* Line 62: std::this_thread::sleep_for(getDelay(retryCount)).
Sleep ==
    /\ pcW = "sleep"
    /\ trace' = Append(trace, SleepEvent(getDelay(retryCount)))
    /\ pcW' = "inc"
    /\ UNCHANGED <<second, policy, callable, captured, pcC, retryCount,
                   result, promise, setCalls, got>>

\* Line 63: ++retryCount.
Inc_Forgotten ==
    /\ pcW = "inc"
    /\ pcW' = "while"
    /\ UNCHANGED <<second, policy, callable, captured, pcC, retryCount,
                   result, promise, setCalls, got, trace>>

Inc ==
    /\ pcW = "inc"
    /\ retryCount' = retryCount + 1
    /\ pcW' = "while"
    /\ UNCHANGED <<second, policy, callable, captured, pcC, result, promise,
                   setCalls, got, trace>>

\* Line 69: while (retryCount < this->_maxRetries).
LoopCondition == retryCount < maxRetries

While_NoFinalSet ==
    /\ pcW = "while"
    /\ pcW' = IF LoopCondition THEN "call" ELSE "done"
    /\ UNCHANGED <<second, policy, callable, captured, pcC, retryCount,
                   result, promise, setCalls, got, trace>>

While ==
    /\ pcW = "while"
    /\ pcW' = IF LoopCondition THEN "call" ELSE "set_final"
    /\ UNCHANGED <<second, policy, callable, captured, pcC, retryCount,
                   result, promise, setCalls, got, trace>>

\* promiseRes.set_value(v): stores v when the shared state is empty; a second
\* call raises std::future_error, which nothing catches (std::terminate).
SetValue(v, next) ==
    /\ setCalls' = setCalls + 1
    /\ IF promise = <<>>
       THEN /\ promise' = <<v>>
            /\ pcW' = next
            /\ pcC' = pcC
            /\ second' = second
       ELSE /\ promise' = promise
            /\ pcW' = "terminated"
            /\ pcC' = "terminated"
            /\ second' = Killed(second)
    /\ UNCHANGED <<policy, callable, captured, retryCount, result, got,
                   trace>>

\* Line 67: `return` leaves the lambda right after the value is set.
AfterMatch_FallThrough == "while"
AfterMatch == "done"

\* Lines 66-67: promiseRes.set_value(result); return.
SetMatch ==
    /\ pcW = "set_match"
    /\ SetValue(result[1], AfterMatch)

\* Line 73: promiseRes.set_value(result) after the loop, then the lambda ends.
SetFinal_FirstResult ==
    /\ pcW = "set_final"
    /\ SetValue(trace[1].val, "done")

SetFinal ==
    /\ pcW = "set_final"
    /\ SetValue(result[1], "done")

\* ------------------------------------------- the second, concurrent call
\* The same code run by a second caller thread and its work_thread on the same
\* object: the policy fields are shared (and only read), everything else is
\* local to the call and kept in `second`.
CallsOf(tr) == Cardinality({i \in 1..Len(tr) : tr[i].ev = "call"})

\* Lines 46-55, second call.
Execute2 ==
    /\ second.pcC = "start"
    /\ second' = [second EXCEPT !.pcC = "join", !.pcW = LoopEntry,
                                !.retryCount = 0]
    /\ UNCHANGED <<policy, firstCall>>

\* Line 75, second call.
Join2 ==
    /\ second.pcC = "join"
    /\ second.pcW = "done"
    /\ second' = [second EXCEPT !.pcC = "return"]
    /\ UNCHANGED <<policy, firstCall>>

\* Line 77, second call.
Return2 ==
    /\ second.pcC = "return"
    /\ second' = [second EXCEPT !.pcC = "returned"]
    /\ UNCHANGED <<policy, firstCall>>

\* Line 59, second call, the callable returns.
Call2 ==
    /\ second.pcC # "absent"
    /\ second.pcW = "call"
    /\ second.throwsAt # CallsOf(second.trace) + 1
    /\ LET r == second.script[CallsOf(second.trace) + 1]
       IN second' = [second EXCEPT !.result = <<r>>,
                                   !.trace = Append(@, CallEvent(r)),
                                   !.pcW = "check"]
    /\ UNCHANGED <<policy, firstCall>>

\* Line 59, second call, the callable throws: std::terminate ends the process,
\* the threads of the first call included.
CallThrows2 ==
    /\ second.pcC # "absent"
    /\ second.pcW = "call"
    /\ second.throwsAt = CallsOf(second.trace) + 1
    /\ second' = Killed(second)
    /\ pcC' = "terminated"
    /\ pcW' = "terminated"
    /\ UNCHANGED <<policy, callable, captured, retryCount, result, promise,
                   setCalls, got, trace>>

\* Line 60, second call.
Check2 ==
    /\ second.pcC # "absent"
    /\ second.pcW = "check"
    /\ second' = [second EXCEPT !.pcW = IF second.result[1] # second.t
                                        THEN "sleep" ELSE "set_match"]
    /\ UNCHANGED <<policy, firstCall>>

\* Line 62, second call.
Sleep2 ==
    /\ second.pcC # "absent"
    /\ second.pcW = "sleep"
    /\ second' = [second EXCEPT
                    !.trace = Append(@, SleepEvent(getDelay(second.retryCount))),
                    !.pcW = "inc"]
    /\ UNCHANGED <<policy, firstCall>>

\* Line 63 as it would be with the counter hoisted to the object: the
\* increment of one call also moves the counter of the other.
Inc2_SharedCounter ==
    /\ second.pcC # "absent"
    /\ second.pcW = "inc"
    /\ second' = [second EXCEPT !.retryCount = @ + 1, !.pcW = "while"]
    /\ retryCount' = retryCount + 1
    /\ UNCHANGED <<policy, callable, captured, pcC, pcW, result, promise,
                   setCalls, got, trace>>

\* Line 63, second call: its own retryCount, local to its lambda (line 55).
Inc2 ==
    /\ second.pcC # "absent"
    /\ second.pcW = "inc"
    /\ second' = [second EXCEPT !.retryCount = @ + 1, !.pcW = "while"]
    /\ UNCHANGED <<policy, firstCall>>

\* Line 69, second call.
While2 ==
    /\ second.pcC # "absent"
    /\ second.pcW = "while"
    /\ second' = [second EXCEPT !.pcW = IF second.retryCount < maxRetries
                                        THEN "call" ELSE "set_final"]
    /\ UNCHANGED <<policy, firstCall>>

\* promiseRes.set_value of the second call (its own promise).
SetValue2(v, next) ==
    /\ IF second.promise = <<>>
       THEN /\ second' = [second EXCEPT !.promise = <<v>>, !.setCalls = @ + 1,
                                        !.pcW = next]
            /\ UNCHANGED <<pcC, pcW>>
       ELSE /\ second' = Killed([second EXCEPT !.setCalls = @ + 1])
            /\ pcC' = "terminated"
            /\ pcW' = "terminated"
    /\ UNCHANGED <<policy, callable, captured, retryCount, result, promise,
                   setCalls, got, trace>>

\* Lines 66-67, second call.
SetMatch2 ==
    /\ second.pcC # "absent"
    /\ second.pcW = "set_match"
    /\ SetValue2(second.result[1], AfterMatch)

\* Line 73, second call.
SetFinal2 ==
    /\ second.pcC # "absent"
    /\ second.pcW = "set_final"
    /\ SetValue2(second.result[1], "done")

Next ==
    \/ Execute
    \/ Join
    \/ Return
    \/ Get
    \/ Call
    \/ CallThrows
    \/ Check
    \/ Sleep
    \/ Inc
    \/ While
    \/ SetMatch
    \/ SetFinal

Spec == Init /\ [][Next]_vars

\* Scripts of the two-call specification: the callable misses with `miss`
\* until invocation k and returns the target from then on.
MatchFrom(k, miss, target) ==
    [i \in 1..ScriptLen |-> IF i < k THEN miss ELSE target]

\* Two calls of operator() on one object, from two caller threads, ready to
\* start; each callable may throw on its second invocation.
InitTwo ==
    /\ maxRetries \in 0..MaxRetriesBound
    /\ baseDelay = 100
    /\ backoffFactor = [num |-> 2, den |-> 1]
    /\ t \in Targets
    /\ script \in {MatchFrom(k, 1, t) : k \in 1..(ScriptLen + 1)}
    /\ throwsAt \in {0, 2}
    /\ argUse = "reads"
    /\ argSnapshot \in ArgSnapshots
    /\ NotCalled
    /\ second \in {[pcC |-> "start", pcW |-> "idle", retryCount |-> 0,
                     result |-> <<>>, promise |-> <<>>, setCalls |-> 0,
                     trace |-> <<>>, t |-> t, script |-> MatchFrom(k, 2, t),
                     throwsAt |-> th] :
                        k \in 1..(ScriptLen + 1), th \in {0, 2}}

NextTwo ==
    \/ Next
    \/ Execute2
    \/ Join2
    \/ Return2
    \/ Call2
    \/ CallThrows2
    \/ Check2
    \/ Sleep2
    \/ Inc2
    \/ While2
    \/ SetMatch2
    \/ SetFinal2

\* Two concurrent calls under every interleaving of their four threads.
SpecTwo == InitTwo /\ [][NextTwo]_vars

\* The steps of work_thread, and the steps of operator() on the caller thread
\* once it has been called.
WorkerStep ==
    Call \/ CallThrows \/ Check \/ Sleep \/ Inc \/ While \/ SetMatch \/ SetFinal
CallerStep == Join \/ Return

\* A started thread keeps being scheduled, sleep_for returns, and join returns
\* once the thread has ended.
FairSpec == Spec /\ WF_vars(WorkerStep) /\ WF_vars(CallerStep)

\* One call, over every use the callable makes of its argument.
SpecArgs == InitArgs /\ [][Next]_vars

\* ------------------------------------------------- vocabulary of the claims
\* The callable never throws.
ReturnsNormally == throwsAt = 0

\* No scripted result equals the target.
NeverMatches == \A i \in 1..ScriptLen : script[i] # t

\* The callable first returns the target on its k-th invocation.
FirstMatchAt(k) ==
    /\ k \in 1..ScriptLen
    /\ script[k] = t
    /\ \A j \in 1..(k - 1) : script[j] # t

\* The lambda has returned with the promise set.
Populated == pcW = "done"

\* Position in trace of the k-th invocation (k <= Calls).
CallPos(k) ==
    CHOOSE p \in 1..Len(trace) :
        /\ trace[p].ev = "call"
        /\ Cardinality({i \in 1..p : trace[i].ev = "call"}) = k

\* floor(baseDelay * backoffFactor^n), by the defining property of the floor.
FloorDelay(n) ==
    CHOOSE d \in 0..(baseDelay * Pow(backoffFactor.num, n)) :
        /\ d * Pow(backoffFactor.den, n) <= baseDelay * Pow(backoffFactor.num, n)
        /\ baseDelay * Pow(backoffFactor.num, n) < (d + 1) * Pow(backoffFactor.den, n)

\* ------------------------------------------------------------------ C1
\* C1: a callable that never matches the target is invoked exactly
\* maxRetries + 1 times before the handle is populated.
C1_ExactlyMPlusOneCalls ==
    (ReturnsNormally /\ NeverMatches /\ Populated) => Calls = maxRetries + 1

\* ------------------------------------------------------------------ C2
\* C2: the number of invocations never exceeds maxRetries + 1, and a finished
\* call has invoked the callable at least once.
C2_AttemptBound ==
    /\ Calls <= maxRetries + 1
    /\ Populated => Calls >= 1

C2_Witness ==
    /\ Populated
    /\ maxRetries >= 2
    /\ Calls = maxRetries

\* ------------------------------------------------------------------ C3
\* C3: if the callable first returns the target on invocation k, for any k in
\* 1..maxRetries+1, it is invoked exactly k times and the handle holds the
\* target.
C3_MatchOnKthCall ==
    \A k \in 1..(maxRetries + 1) :
        (ReturnsNormally /\ FirstMatchAt(k) /\ Populated)
            => (Calls = k /\ promise = <<t>>)

\* ------------------------------------------------------------------ C4
\* C4: when no invocation matches, the handle holds the result of invocation
\* maxRetries + 1.
C4_ExhaustionValue ==
    (ReturnsNormally /\ NeverMatches /\ Populated)
        => promise = <<FuncResult(maxRetries + 1)>>

\* ------------------------------------------------------------------ C5
\* C5: with maxRetries > 0, baseDelay > 0 and a first invocation that does not
\* match, operator() hands the future to the caller while work_thread has not
\* yet reached a terminal state.
C5_ReturnsBeforeCompletion ==
    [][(/\ pcC = "return"
        /\ pcC' = "returned"
        /\ maxRetries > 0
        /\ baseDelay > 0
        /\ throwsAt # 1
        /\ script[1] # t) => pcW' \notin {"done", "terminated"}]_vars

\* ------------------------------------------------------------------ C6
\* C6: for a callable that never matches and n = 0..maxRetries-1, invocation
\* n+2 takes place and the sleep right before it lasts
\* floor(baseDelay * backoffFactor^n) ms (integer factors).
C6_DelayBeforeRetry ==
    (ReturnsNormally /\ NeverMatches /\ Populated /\ backoffFactor.den = 1)
        => \A n \in 0..(maxRetries - 1) :
              /\ Calls >= n + 2
              /\ CallPos(n + 2) > 1
              /\ trace[CallPos(n + 2) - 1] = SleepEvent(FloorDelay(n))

\* ------------------------------------------------------------------ C7
\* C7: sleeps happen only between two consecutive invocations: a finished
\* call has slept once less than it has invoked, its last event is an
\* invocation, and with maxRetries = 0 it has not slept at all.
C7_SleepsOnlyBetweenCalls ==
    (ReturnsNormally /\ Populated)
        => /\ Sleeps = Calls - 1
           /\ trace[Len(trace)].ev = "call"
           /\ maxRetries = 0 => Sleeps = 0

\* ------------------------------------------------------------------ C8
\* C8: after an invocation whose result equals the target there is no sleep
\* and no further invocation; the comparison leads straight to set_value of
\* that result, and nothing is invoked or slept once it is set.
C8_MatchGoesStraightToSetValue ==
    /\ [][(pcW = "check" /\ result = <<t>>)
            => (pcW' = "set_match" /\ trace' = trace /\ promise' = <<>>)]_vars
    /\ [][pcW = "set_match"
            => (/\ result = <<t>>
                /\ promise' = <<t>>
                /\ pcW' = "done"
                /\ trace' = trace)]_vars
    /\ [][(pcW = "done" /\ promise = <<t>>)
            => (pcW' = "done" /\ promise' = promise /\ trace' = trace)]_vars
    /\ [](\A i \in 1..Len(trace) : trace[i] = CallEvent(t) => i = Len(trace))

C8_Witness ==
    /\ Populated
    /\ promise = <<t>>
    /\ Calls >= 2
    /\ Sleeps = Calls - 1

\* ------------------------------------------------------------------ C9
\* C9: when the callable returns normally, set_value is called exactly once
\* on every path: at most once in every state, exactly once when the lambda
\* has returned, and the thread ends abnormally only if the callable threw.
C9_PopulatedExactlyOnce ==
    /\ setCalls <= 1
    /\ Len(promise) = setCalls
    /\ Populated => setCalls = 1
    /\ pcW = "terminated" => throwsAt = Calls + 1

C9_Witness ==
    /\ Populated
    /\ setCalls = 1
    /\ promise # <<t>>
    /\ Calls >= 2

\* ----------------------------------------------------------------- C10
\* C10: if the callable throws, the failure is delivered through the handle:
\* the handle is populated and the caller is there to read it.
C10_FailureThroughHandle ==
    (pcW = "terminated" /\ throwsAt = Calls + 1)
        => (promise # <<>> /\ pcC # "terminated")

\* ----------------------------------------------------------------- C11
\* C11: every invocation of the callable, first attempt and retries alike,
\* receives argument values identical to the snapshot taken when operator()
\* was called, whatever earlier invocations did to the argument they got.
C11_EveryCallSeesSnapshot == argSeen \in {<<>>, <<argSnapshot>>}

\* ----------------------------------------------------------------- C13
\* C13: under fair scheduling every started call ends: work_thread reaches
\* the end of the lambda with the promise set, unless the callable threw.
C13_EventuallyPopulated ==
    /\ (pcW # "idle") ~> ((pcW = "done" /\ promise # <<>>) \/ pcW = "terminated")
    /\ [](pcW = "terminated" => throwsAt = Calls + 1)

C13_Witness ==
    /\ pcW = "done"
    /\ promise # <<>>
    /\ ReturnsNormally
    /\ Sleeps >= 2

\* ----------------------------------------------------------------- C14
\* Number of sleeps before position p of trace: every sleep is followed by one
\* ++retryCount, so this is the counter with which the invocation at p ran.
CounterAt(p) == Cardinality({i \in 1..p : trace[i].ev = "sleep"})

\* The counter read at the comparison is the number of sleeps made so far.
CounterAtCheckIsSleeps == pcW = "check" => retryCount = Sleeps

\* C14: a non-matching invocation made with a counter below maxRetries is
\* followed by a sleep of delay(counter) and by another invocation before the
\* handle is populated; a non-matching value is delivered only when the
\* invocation ran with the counter equal to maxRetries.
C14_RetryWhileBelowMax ==
    Populated =>
        /\ \A p \in 1..Len(trace) :
              (trace[p].ev = "call" /\ trace[p].val # t /\ CounterAt(p) < maxRetries)
                  => /\ Len(trace) >= p + 2
                     /\ trace[p + 1] = SleepEvent(FloorDelay(CounterAt(p)))
                     /\ trace[p + 2].ev = "call"
        /\ promise # <<t>> => CounterAt(CallPos(Calls)) = maxRetries

\* ----------------------------------------------------------------- C15
\* Number of invocations so far that returned a value other than the target.
FailedCalls ==
    Cardinality({i \in 1..Len(trace) : trace[i].ev = "call" /\ trace[i].val # t})

\* C15 as stated: in every reachable state the counter equals the number of
\* non-matching invocations completed so far (the instant between the return
\* of an invocation and its comparison with the target is left out).
C15_CounterIsFailedCalls == pcW # "check" => retryCount = FailedCalls

\* A non-matching invocation has returned and its ++retryCount is still to come.
IncrementPending ==
    \/ pcW = "check" /\ result[1] # t
    \/ pcW \in {"sleep", "inc"}

\* C15 as amended: the counter starts at 0 and changes only by +1, at the
\* ++retryCount that follows the sleep after a non-matching invocation; it
\* equals the number of non-matching invocations completed so far, less one
\* while that increment is pending; every sleep lasts the delay computed from
\* the counter before the increment.
C15_CounterTracksFailedCalls ==
    /\ [](pcW = "idle" => retryCount = 0)
    /\ [](retryCount = FailedCalls - (IF IncrementPending THEN 1 ELSE 0))
    /\ [][retryCount' # retryCount
            => /\ retryCount' = retryCount + 1
               /\ Len(trace) >= 2
               /\ trace[Len(trace)].ev = "sleep"
               /\ trace[Len(trace) - 1].ev = "call"
               /\ trace[Len(trace) - 1].val # t
               /\ trace' = trace]_vars
    /\ [][Len(trace') > Len(trace) /\ trace'[Len(trace')].ev = "sleep"
            => /\ trace'[Len(trace')].val = FloorDelay(retryCount)
               /\ retryCount' = retryCount]_vars

C15_Witness ==
    /\ pcW = "sleep"
    /\ retryCount = 1
    /\ FailedCalls = 2

\* ----------------------------------------------------------------- C16
\* C16: in every reachable state 0 <= retryCount <= maxRetries.
C16_CounterInRange == retryCount \in 0..maxRetries

\* ----------------------------------------------------------------- C17
\* C17: once the promise holds a value the callable is not invoked again and
\* nothing sleeps; the lambda has ended and the value held is the result of
\* the most recent invocation.
C17_PopulatedOnlyAtTheEnd ==
    /\ [][promise # <<>> => (trace' = trace /\ promise' = promise /\ pcW' = pcW)]_vars
    /\ [](promise # <<>>
            => /\ pcW = "done"
               /\ promise = result
               /\ promise = <<trace[CallPos(Calls)].val>>)

C17_Witness ==
    /\ pcC = "got"
    /\ got = promise
    /\ promise # <<t>>
    /\ Calls = maxRetries
    /\ trace[1].val # promise[1]

\* ----------------------------------------------------------------- C12
\* What one call does when it runs alone: the invocations and sleeps it makes
\* and the value it delivers, computed by running the loop of lines 55-73 on
\* the call's own script with a counter of its own.
RECURSIVE SoloRun(_, _, _, _, _)
SoloRun(scr, thr, target, rc, tr) ==
    IF thr = CallsOf(tr) + 1
    THEN [trace |-> tr, value |-> <<>>]
    ELSE LET r == scr[CallsOf(tr) + 1]
             called == Append(tr, CallEvent(r))
             slept == Append(called, SleepEvent(FloorDelay(rc)))
         IN IF r = target THEN [trace |-> called, value |-> <<r>>]
            ELSE IF rc + 1 < maxRetries
                 THEN SoloRun(scr, thr, target, rc + 1, slept)
                 ELSE [trace |-> slept, value |-> <<r>>]

Ended(pc) == pc \in {"done", "terminated"}

\* Both calls made what they make when run alone.
SameAsAlone ==
    /\ [trace |-> trace, value |-> promise]
         = SoloRun(script, throwsAt, t, 0, <<>>)
    /\ [trace |-> second.trace, value |-> second.promise]
         = SoloRun(second.script, second.throwsAt, second.t, 0, <<>>)

\* C12: two concurrent calls on one object do not interfere under any
\* interleaving: when both have ended, the invocations, the delays and the
\* delivered value of each are those of the call run alone.
C12_CallsDoNotInterfere ==
    (Ended(pcW) /\ Ended(second.pcW)) => SameAsAlone

\* The same for callables that return normally: each call keeps a counter of
\* its own and the policy is only read.
IndependentWhenNoThrow ==
    (throwsAt = 0 /\ second.throwsAt = 0 /\ Ended(pcW) /\ Ended(second.pcW))
        => SameAsAlone

====
